---- MODULE Spec2Model ----
(***************************************************************************)
(* Model of tool/analyze_packages.py: main() walks the sorted entries of   *)
(* the packages directory, skips entries without a pubspec.yaml file,      *)
(* runs "<dart|flutter> pub get" and "dart analyze --fatal-infos" in every *)
(* package, collects the packages whose analysis failed and returns 0/1.   *)
(*                                                                         *)
(* Text is modelled as a sequence of one-character strings.  The file      *)
(* system, the child processes and the console are the environment: their  *)
(* observable effects are recorded in the history variable `events`.       *)
(***************************************************************************)
EXTENDS Integers, Sequences, FiniteSets, TLC

VARIABLES
    listable,    \* environment: os.listdir(packages_dir) succeeds
    fs,          \* environment: entry name -> what <entry>/pubspec.yaml is
    pc,          \* position of main()
    todo,        \* the part of sorted(os.listdir(...)) not yet iterated
    name,        \* loop variable `name`
    is_flutter,  \* local `is_flutter`
    pub_cmd,     \* local `pub_cmd`
    failed,      \* local `failed`
    running,     \* child processes that have been spawned and have not exited
    events,      \* history: print / spawn / exit events in the order they happen
    returned,    \* <<>> until main() returns, then <<its return value>>
    fault        \* the call whose exception ended main(), "none" otherwise

vars == <<listable, fs, pc, todo, name, is_flutter, pub_cmd, failed,
          running, events, returned, fault>>

----------------------------------------------------------------------------
(* Bounds and input domains                                                *)

MaxEntries == 3

\* code points of the characters used in entry names
Ord == [c \in {"B", "a", "b"} |-> IF c = "B" THEN 66 ELSE IF c = "a" THEN 97 ELSE 98]

Names == { <<"B">>, <<"a">>, <<"a", "b">>, <<"b">> }

Marker == <<"s", "d", "k", ":", " ", "f", "l", "u", "t", "t", "e", "r">>

\* manifest contents: one text with the marker inside it, and one text without
\* it that holds the marker without its space and the marker cut short at the end
ManifestTexts ==
    { <<"x", "\n", " ">> \o Marker \o <<"\n">>,
      <<"s", "d", "k", ":", "f", "l", "u", "t", "t", "e", "r", "\n",
        " ", "s", "d", "k", ":", " ", "f", "l", "u", "t", "t", "e">> }

\* what <entry>/pubspec.yaml can be: not a regular file, a file that cannot be
\* opened or decoded, or a readable text file
NoManifest == [isfile |-> FALSE, readable |-> FALSE, content |-> <<>>]
Unreadable == [isfile |-> TRUE, readable |-> FALSE, content |-> <<>>]
EntryKinds ==
    {NoManifest, Unreadable}
      \cup {[isfile |-> TRUE, readable |-> TRUE, content |-> t] : t \in ManifestTexts}

Workspaces ==
    UNION { [S -> EntryKinds] : S \in {T \in SUBSET Names : Cardinality(T) <= MaxEntries} }

PubGetStatuses == {0, 1}
AnalyzeStatuses == {0, 1, 3}

----------------------------------------------------------------------------
(* Pure functions                                                          *)

\* Python's str `<`: the first differing code point decides, a proper prefix is less
RECURSIVE StrLess(_, _)
StrLess(a, b) ==
    IF b = <<>> THEN FALSE
    ELSE IF a = <<>> THEN TRUE
    ELSE IF Ord[Head(a)] # Ord[Head(b)] THEN Ord[Head(a)] < Ord[Head(b)]
    ELSE StrLess(Tail(a), Tail(b))

\* variant: sorted(..., reverse=True)
RECURSIVE sorted_desc(_)
sorted_desc(S) ==
    IF S = {} THEN <<>>
    ELSE LET m == CHOOSE x \in S : \A y \in S \ {x} : StrLess(y, x)
         IN  <<m>> \o sorted_desc(S \ {m})

\* sorted(os.listdir(packages_dir)): the entry names in increasing order
RECURSIVE sorted(_)
sorted(S) ==
    IF S = {} THEN <<>>
    ELSE LET m == CHOOSE x \in S : \A y \in S \ {x} : StrLess(x, y)
         IN  <<m>> \o sorted(S \ {m})

\* `sub in s` on str: scan the start positions from the left
RECURSIVE FindFrom(_, _, _)
FindFrom(sub, s, i) ==
    IF i + Len(sub) - 1 > Len(s) THEN FALSE
    ELSE IF SubSeq(s, i, i + Len(sub) - 1) = sub THEN TRUE
    ELSE FindFrom(sub, s, i + 1)

\* variant: content.startswith('sdk: flutter')
StartsWithMarker(content) ==
    Len(content) >= Len(Marker) /\ SubSeq(content, 1, Len(Marker)) = Marker

\* _is_flutter_package, once the file has been opened and read
ContainsMarker(content) == FindFrom(Marker, content, 1)

\* variant: os.path.exists(pkg_path) in place of the isfile test
exists_pkg_path(n) == n \in DOMAIN fs

\* os.path.isfile(os.path.join(pkg_path, 'pubspec.yaml'))
isfile_pubspec(n) == fs[n].isfile

\* open(pubspec_path) and f.read() succeed
can_read_pubspec(n) == fs[n].readable

\* pkg_path = os.path.join(packages_dir, name): one path per entry name
pkg_path(n) == n

PubGetCmd(flutter) ==
    IF flutter THEN <<"flutter", "pub", "get">> ELSE <<"dart", "pub", "get">>

AnalyzeCmd == <<"dart", "analyze", "--fatal-infos">>

----------------------------------------------------------------------------
(* Console text                                                            *)

AnalyzingPrefix ==
    <<"\n", "-", "-", "-", " ", "A", "n", "a", "l", "y", "z", "i", "n", "g", " ">>
FlutterTag == <<"(", "f", "l", "u", "t", "t", "e", "r", ")">>
AnalyzingSuffix == <<" ", "-", "-", "-">>
FailedPrefix ==
    <<"\n", "F", "a", "i", "l", "e", "d", " ", "p", "a", "c", "k", "a", "g", "e", "s",
      ":", " ">>
PassedLine ==
    <<"\n", "A", "l", "l", " ", "p", "a", "c", "k", "a", "g", "e", "s", " ",
      "p", "a", "s", "s", "e", "d", " ", "a", "n", "a", "l", "y", "s", "i", "s", ".">>
CommaSpace == <<",", " ">>

\* f'\n--- Analyzing {name} {"(flutter)" if is_flutter else ""} ---'
ProgressLine(n, flutter) ==
    AnalyzingPrefix \o n \o <<" ">> \o (IF flutter THEN FlutterTag ELSE <<>>)
        \o AnalyzingSuffix

\* variant: ''.join(items)
RECURSIVE join_concat(_, _)
join_concat(sep, items) ==
    IF items = <<>> THEN <<>> ELSE Head(items) \o join_concat(sep, Tail(items))

\* sep.join(items)
RECURSIVE join(_, _)
join(sep, items) ==
    IF items = <<>> THEN <<>>
    ELSE IF Len(items) = 1 THEN Head(items)
    ELSE Head(items) \o sep \o join(sep, Tail(items))

\* f'\nFailed packages: {", ".join(failed)}' or the success message
SummaryLine(f) ==
    IF f # <<>> THEN FailedPrefix \o join(CommaSpace, f) ELSE PassedLine

\* variant: return len(failed)
ReturnLength(f) == Len(f)

\* the value main() returns
ReturnCode(f) == IF f # <<>> THEN 1 ELSE 0

Printed(t) == [kind |-> "print", text |-> t]
Spawned(c, d) == [kind |-> "spawn", cmd |-> c, cwd |-> d]
Exited(c, d, st) == [kind |-> "exit", cmd |-> c, cwd |-> d, status |-> st]
Proc(c, d, h) == [cmd |-> c, cwd |-> d, hangs |-> h]

----------------------------------------------------------------------------
(* The state after construction: main() has not run yet                    *)

Init ==
    /\ \/ listable = TRUE /\ fs \in Workspaces
       \/ listable = FALSE /\ fs = << >>
    /\ pc = "start"
    /\ todo = <<>>
    /\ name = <<>>
    /\ is_flutter = FALSE
    /\ pub_cmd = <<>>
    /\ failed = <<>>
    /\ running = {}
    /\ events = <<>>
    /\ returned = <<>>
    /\ fault = "none"

----------------------------------------------------------------------------
(* Steps of main()                                                         *)

\* lines 17-21: failed = []; the for statement evaluates sorted(os.listdir(..))
ListPackages ==
    /\ pc = "start"
    /\ listable
    /\ todo' = sorted(DOMAIN fs)
    /\ failed' = <<>>
    /\ pc' = "loop"
    /\ UNCHANGED <<listable, fs, name, is_flutter, pub_cmd, running, events,
                   returned, fault>>

\* line 21: os.listdir raises (the packages directory is missing or unreadable)
ListRaises ==
    /\ pc = "start"
    /\ ~listable
    /\ pc' = "raised"
    /\ fault' = "listdir"
    /\ UNCHANGED <<listable, fs, todo, name, is_flutter, pub_cmd, failed, running,
                   events, returned>>

\* variant: the progress line is printed before the isfile test
SkipEntryAnnounced ==
    /\ pc = "loop"
    /\ todo # <<>>
    /\ ~isfile_pubspec(Head(todo))
    /\ name' = Head(todo)
    /\ todo' = Tail(todo)
    /\ events' = Append(events, Printed(ProgressLine(Head(todo), FALSE)))
    /\ UNCHANGED <<listable, fs, pc, is_flutter, pub_cmd, failed, running, returned,
                   fault>>

\* lines 21-25: the next entry has no pubspec.yaml file: continue
SkipEntry ==
    /\ pc = "loop"
    /\ todo # <<>>
    /\ ~isfile_pubspec(Head(todo))
    /\ name' = Head(todo)
    /\ todo' = Tail(todo)
    /\ UNCHANGED <<listable, fs, pc, is_flutter, pub_cmd, failed, running, events,
                   returned, fault>>

\* lines 21-27, 11-12: the manifest is a file but open()/read() raises
ReadManifestRaises ==
    /\ pc = "loop"
    /\ todo # <<>>
    /\ isfile_pubspec(Head(todo))
    /\ ~can_read_pubspec(Head(todo))
    /\ name' = Head(todo)
    /\ todo' = Tail(todo)
    /\ pc' = "raised"
    /\ fault' = "open"
    /\ UNCHANGED <<listable, fs, is_flutter, pub_cmd, failed, running, events,
                   returned>>

\* lines 21-30: the next entry is a package: detect the toolchain, choose the
\* fetch command and print the progress line
Announce ==
    /\ pc = "loop"
    /\ todo # <<>>
    /\ isfile_pubspec(Head(todo))
    /\ can_read_pubspec(Head(todo))
    /\ LET n == Head(todo)
           f == ContainsMarker(fs[n].content)
       IN  /\ name' = n
           /\ is_flutter' = f
           /\ pub_cmd' = PubGetCmd(f)
           /\ events' = Append(events, Printed(ProgressLine(n, f)))
    /\ todo' = Tail(todo)
    /\ pc' = "pub_get"
    /\ UNCHANGED <<listable, fs, failed, running, returned, fault>>

\* variant: subprocess.Popen(pub_cmd, cwd=pkg_path), which does not wait
SpawnPubGetNoWait ==
    /\ pc = "pub_get"
    /\ \E h \in BOOLEAN : running' = running \cup {Proc(pub_cmd, pkg_path(name), h)}
    /\ events' = Append(events, Spawned(pub_cmd, pkg_path(name)))
    /\ pc' = "analyze"
    /\ UNCHANGED <<listable, fs, todo, name, is_flutter, pub_cmd, failed, returned,
                   fault>>

\* line 31: subprocess.run(pub_cmd, cwd=pkg_path, check=False) starts the child
\* and blocks; the child may never exit
SpawnPubGet ==
    /\ pc = "pub_get"
    /\ \E h \in BOOLEAN : running' = running \cup {Proc(pub_cmd, pkg_path(name), h)}
    /\ events' = Append(events, Spawned(pub_cmd, pkg_path(name)))
    /\ pc' = "pub_wait"
    /\ UNCHANGED <<listable, fs, todo, name, is_flutter, pub_cmd, failed, returned,
                   fault>>

\* variant: a non-zero fetch status records the package too
PubGetReturnsRecorded ==
    /\ pc = "pub_wait"
    /\ \E p \in running :
         /\ ~p.hangs
         /\ \E st \in PubGetStatuses :
              /\ events' = Append(events, Exited(p.cmd, p.cwd, st))
              /\ failed' = IF st # 0 THEN Append(failed, name) ELSE failed
         /\ running' = running \ {p}
    /\ pc' = "analyze"
    /\ UNCHANGED <<listable, fs, todo, name, is_flutter, pub_cmd, returned, fault>>

\* lines 31-35: the child exits; check=False and the result is dropped
PubGetReturns ==
    /\ pc = "pub_wait"
    /\ \E p \in running :
         /\ ~p.hangs
         /\ \E st \in PubGetStatuses :
              events' = Append(events, Exited(p.cmd, p.cwd, st))
         /\ running' = running \ {p}
    /\ pc' = "analyze"
    /\ UNCHANGED <<listable, fs, todo, name, is_flutter, pub_cmd, failed, returned,
                   fault>>

\* line 36: subprocess.run(['dart', 'analyze', '--fatal-infos'], cwd=pkg_path)
SpawnAnalyze ==
    /\ pc = "analyze"
    /\ \E h \in BOOLEAN : running' = running \cup {Proc(AnalyzeCmd, pkg_path(name), h)}
    /\ events' = Append(events, Spawned(AnalyzeCmd, pkg_path(name)))
    /\ pc' = "analyze_wait"
    /\ UNCHANGED <<listable, fs, todo, name, is_flutter, pub_cmd, failed, returned,
                   fault>>

\* variant: subprocess.run(..., timeout=...) gives up on a child that hangs
AnalyzeReturnsTimeout ==
    /\ pc = "analyze_wait"
    /\ \E p \in running :
         /\ \E st \in AnalyzeStatuses :
              /\ events' = Append(events, Exited(p.cmd, p.cwd, st))
              /\ failed' = IF st # 0 THEN Append(failed, name) ELSE failed
         /\ running' = running \ {p}
    /\ pc' = "loop"
    /\ UNCHANGED <<listable, fs, todo, name, is_flutter, pub_cmd, returned, fault>>

\* variant: the loop breaks at the first analysis failure
AnalyzeReturnsStop ==
    /\ pc = "analyze_wait"
    /\ \E p \in running :
         /\ ~p.hangs
         /\ \E st \in AnalyzeStatuses :
              /\ events' = Append(events, Exited(p.cmd, p.cwd, st))
              /\ failed' = IF st # 0 THEN Append(failed, name) ELSE failed
              /\ todo' = IF st # 0 THEN <<>> ELSE todo
         /\ running' = running \ {p}
    /\ pc' = "loop"
    /\ UNCHANGED <<listable, fs, name, is_flutter, pub_cmd, returned, fault>>

\* lines 36-41: the child exits; a non-zero return code records the package
AnalyzeReturns ==
    /\ pc = "analyze_wait"
    /\ \E p \in running :
         /\ ~p.hangs
         /\ \E st \in AnalyzeStatuses :
              /\ events' = Append(events, Exited(p.cmd, p.cwd, st))
              /\ failed' = IF st # 0 THEN Append(failed, name) ELSE failed
         /\ running' = running \ {p}
    /\ pc' = "loop"
    /\ UNCHANGED <<listable, fs, todo, name, is_flutter, pub_cmd, returned, fault>>

\* lines 31, 36: subprocess.run raises before a child exists (the executable is
\* not installed, the working directory cannot be entered)
SpawnRaises ==
    /\ pc \in {"pub_get", "analyze"}
    /\ pc' = "raised"
    /\ fault' = "spawn"
    /\ UNCHANGED <<listable, fs, todo, name, is_flutter, pub_cmd, failed, running,
                   events, returned>>

\* lines 43-48: the loop is exhausted: print the summary and return
Report ==
    /\ pc = "loop"
    /\ todo = <<>>
    /\ events' = Append(events, Printed(SummaryLine(failed)))
    /\ returned' = <<ReturnCode(failed)>>
    /\ pc' = "done"
    /\ UNCHANGED <<listable, fs, todo, name, is_flutter, pub_cmd, failed, running,
                   fault>>

Next ==
    \/ ListPackages
    \/ ListRaises
    \/ SkipEntry
    \/ ReadManifestRaises
    \/ Announce
    \/ SpawnPubGet
    \/ PubGetReturns
    \/ SpawnAnalyze
    \/ AnalyzeReturns
    \/ SpawnRaises
    \/ Report

Spec == Init /\ [][Next]_vars

\* The interpreter keeps executing main(), and a child that does not hang exits.
FairSpec == Spec /\ WF_vars(Next)

----------------------------------------------------------------------------
(* Vocabulary of the properties                                            *)

Range(s) == {s[i] : i \in DOMAIN s}
IsPrint(i) == events[i].kind = "print"
IsSpawn(i) == events[i].kind = "spawn"
IsExit(i) == events[i].kind = "exit"
IsCmd(i) == IsSpawn(i) \/ IsExit(i)
IsPubGet(c) == c \in {<<"dart", "pub", "get">>, <<"flutter", "pub", "get">>}

\* the command events (spawn and exit) in the order they happened
CmdEvents == SelectSeq(events, LAMBDA e : e.kind # "print")
\* the exit events of analysis commands, in order
AnalyzeExits ==
    SelectSeq(events, LAMBDA e : e.kind = "exit" /\ e.cmd = <<"dart", "analyze", "--fatal-infos">>)
PubGetExits == SelectSeq(events, LAMBDA e : e.kind = "exit" /\ IsPubGet(e.cmd))

\* entries that have a pubspec.yaml file directly inside them
HasManifest(n) == fs[n].isfile

\* a precedes b in lexicographic order of code points
LexLess(a, b) ==
    \E k \in 1..Len(b) :
        /\ k - 1 <= Len(a)
        /\ \A j \in 1..(k - 1) : a[j] = b[j]
        /\ \/ k = Len(a) + 1
           \/ k <= Len(a) /\ Ord[a[k]] < Ord[b[k]]

\* text contains the literal substring `sdk: flutter`
HasMarker(text) ==
    \E i \in 1..Len(text) :
        LET lit == <<"s", "d", "k", ":", " ", "f", "l", "u", "t", "t", "e", "r">>
        IN  /\ i + Len(lit) - 1 <= Len(text)
            /\ \A j \in 1..Len(lit) : text[i + j - 1] = lit[j]

IsProgressLineOf(t, n) ==
    LET k == Len(AnalyzingPrefix)
    IN  /\ Len(t) > k + Len(n)
        /\ SubSeq(t, 1, k) = AnalyzingPrefix
        /\ SubSeq(t, k + 1, k + Len(n)) = n
        /\ t[k + Len(n) + 1] = " "

----------------------------------------------------------------------------
(* C1: an entry without a pubspec.yaml file directly inside it is never    *)
(* the working directory of a command (spawned, running or exited), is     *)
(* never named by a progress line, and never appears in `failed`.          *)
C1_NoManifestUntouched ==
    \A n \in DOMAIN fs :
        ~HasManifest(n) =>
            /\ \A i \in DOMAIN events :
                 /\ IsCmd(i) => events[i].cwd # n
                 /\ IsPrint(i) => ~IsProgressLineOf(events[i].text, n)
            /\ \A p \in running : p.cwd # n
            /\ n \notin Range(failed)

C1_Witness ==
    /\ pc = "done"
    /\ \E n, m \in DOMAIN fs :
         /\ ~HasManifest(n)
         /\ LexLess(n, m)
         /\ \E i \in DOMAIN events : IsExit(i) /\ events[i].cwd = m

(* C2: when main returns, the exit code is 0 iff `failed` is empty, iff    *)
(* every analysis command returned 0; otherwise it is exactly 1 whatever   *)
(* the statuses and however many packages failed; an empty workspace gives *)
(* 0 with no command invoked; nothing is returned before the end.          *)
C2_ExitCode ==
    LET ce == CmdEvents
        ae == AnalyzeExits
    IN  /\ pc # "done" => returned = <<>>
        /\ pc = "done" =>
             /\ returned \in {<<0>>, <<1>>}
             /\ returned = <<0>> <=> failed = <<>>
             /\ returned = <<0>> <=>
                  \A i \in DOMAIN ae : ae[i].status = 0
             /\ DOMAIN fs = {} => returned = <<0>> /\ ce = <<>>

C2_Witness ==
    /\ pc = "done"
    /\ returned = <<1>>
    /\ Len(failed) = 2
    /\ \E i \in DOMAIN AnalyzeExits : AnalyzeExits[i].status = 3

\* the working directories of the analysis commands that returned non-zero
FailedAnalyses ==
    LET bad == SelectSeq(AnalyzeExits, LAMBDA e : e.status # 0)
    IN  [i \in DOMAIN bad |-> bad[i].cwd]

(* C3: the status of a dependency-fetch command influences nothing: after  *)
(* a fetch exits, with any status, the analysis of the same package is the *)
(* next command; a name is in `failed` only if its analysis returned       *)
(* non-zero, so a package whose fetch failed and whose analysis returned 0 *)
(* is not in `failed`, and the exit code is 1 only if an analysis failed.  *)
C3_FetchStatusIgnored ==
    LET ce == CmdEvents
        ae == AnalyzeExits
        pe == PubGetExits
    IN  /\ \A i \in DOMAIN ce :
             (ce[i].kind = "exit" /\ IsPubGet(ce[i].cmd)) =>
                IF i < Len(ce)
                THEN /\ ce[i + 1].kind = "spawn"
                     /\ ce[i + 1].cmd = <<"dart", "analyze", "--fatal-infos">>
                     /\ ce[i + 1].cwd = ce[i].cwd
                ELSE pc = "analyze" \/ (pc = "raised" /\ fault = "spawn")
        /\ \A n \in Range(failed) :
             \E i \in DOMAIN ae :
                ae[i].cwd = n /\ ae[i].status # 0
        /\ \A i \in DOMAIN pe, j \in DOMAIN ae :
             (/\ pe[i].cwd = ae[j].cwd
              /\ pe[i].status # 0
              /\ ae[j].status = 0) => ae[j].cwd \notin Range(failed)
        /\ returned = <<1>> => \E j \in DOMAIN ae : ae[j].status # 0

C3_Witness ==
    /\ pc = "done"
    /\ returned = <<0>>
    /\ \E i \in DOMAIN PubGetExits : PubGetExits[i].status # 0
    /\ Len(AnalyzeExits) = 2

\* the working directories of the spawned commands, in order
SpawnDirs ==
    LET sp == SelectSeq(events, LAMBDA e : e.kind = "spawn")
    IN  [i \in DOMAIN sp |-> sp[i].cwd]

(* C4: packages are visited in strictly increasing lexicographic order of  *)
(* name: a command of p spawned before a command of q means p = q or       *)
(* name(p) < name(q); a package is announced at most once and gets at most *)
(* two commands; the entries still to visit are all greater than the       *)
(* current one, so the order is a function of the workspace alone.         *)
C4_SortedVisits ==
    LET sd == SpawnDirs
    IN  /\ \A i, j \in DOMAIN sd :
             i < j => sd[i] = sd[j] \/ LexLess(sd[i], sd[j])
        /\ \A n \in DOMAIN fs :
             /\ Cardinality({i \in DOMAIN sd : sd[i] = n}) <= 2
             /\ Cardinality({i \in DOMAIN events :
                                IsPrint(i) /\ IsProgressLineOf(events[i].text, n)}) <= 1
        /\ \A i, j \in DOMAIN todo : i < j => LexLess(todo[i], todo[j])
        /\ \A i \in DOMAIN todo :
             /\ \A k \in DOMAIN sd : LexLess(sd[k], todo[i])
             /\ pc \notin {"start", "done"} /\ name # <<>> => LexLess(name, todo[i])
        /\ pc # "start" =>
             \A n \in DOMAIN fs : n \in Range(todo) \/ n = name \/ LexLess(n, name)

C4_Witness ==
    /\ pc = "done"
    /\ Len(SpawnDirs) = 6
    /\ SpawnDirs[1] = <<"B">>
    /\ SpawnDirs[3] = <<"a">>
    /\ SpawnDirs[5] = <<"a", "b">>

(* C5: the fetch command of a package is `flutter pub get` iff its         *)
(* manifest text contains the substring `sdk: flutter`, else `dart pub     *)
(* get`; the progress line carries the (flutter) annotation in the same    *)
(* cases; the analysis command is `dart analyze --fatal-infos` for both    *)
(* toolchains, and whether a package is recorded in `failed` follows from  *)
(* its analysis status alone, whatever its toolchain.                      *)
C5_ToolchainSelection ==
    LET ce == CmdEvents
        ae == AnalyzeExits
    IN  /\ \A i \in DOMAIN ce :
             LET e == ce[i]
                 first == \A k \in 1..(i - 1) : ce[k].cwd # e.cwd
             IN  e.kind = "spawn" =>
                    e.cmd = IF ~first THEN <<"dart", "analyze", "--fatal-infos">>
                            ELSE IF HasMarker(fs[e.cwd].content)
                                 THEN <<"flutter", "pub", "get">>
                                 ELSE <<"dart", "pub", "get">>
        /\ \A i \in DOMAIN events :
             IsPrint(i) =>
                \A n \in DOMAIN fs :
                   IsProgressLineOf(events[i].text, n) =>
                      (HasMarker(fs[n].content) <=>
                         \E k \in DOMAIN events[i].text :
                            /\ k + 8 <= Len(events[i].text)
                            /\ SubSeq(events[i].text, k, k + 8)
                                  = <<"(", "f", "l", "u", "t", "t", "e", "r", ")">>)
        /\ \A j \in DOMAIN ae :
             ae[j].status # 0 <=> ae[j].cwd \in Range(failed)

C5_Witness ==
    /\ pc = "done"
    /\ returned = <<0>>
    /\ \E i, j \in DOMAIN CmdEvents :
         /\ CmdEvents[i].kind = "spawn"
         /\ CmdEvents[j].kind = "spawn"
         /\ CmdEvents[i].cmd = <<"flutter", "pub", "get">>
         /\ CmdEvents[j].cmd = <<"dart", "pub", "get">>

\* packages whose processing is complete: their analysis command has exited
Analyzed == {AnalyzeExits[i].cwd : i \in DOMAIN AnalyzeExits}

(* C6: an analysis failure is recorded and does not stop the loop: `failed`*)
(* is always exactly the packages whose analysis returned non-zero, in     *)
(* visit order and without duplicates; after an analysis exits, whatever   *)
(* its status, main is back at the head of the loop, and when main returns *)
(* every entry with a manifest has been fetched and analyzed exactly once. *)
C6_FailuresRecordedLoopContinues ==
    LET ae == AnalyzeExits
        pe == PubGetExits
        fa == FailedAnalyses
    IN  /\ failed = fa
        /\ \A i, j \in DOMAIN failed : i # j => failed[i] # failed[j]
        /\ (events # <<>> /\ events[Len(events)].kind = "exit"
              /\ events[Len(events)].cmd = <<"dart", "analyze", "--fatal-infos">>)
             => pc = "loop" \/ (pc = "raised" /\ fault = "open")
        /\ pc = "done" =>
             \A n \in DOMAIN fs :
                HasManifest(n) =>
                   /\ Cardinality({i \in DOMAIN ae : ae[i].cwd = n}) = 1
                   /\ Cardinality({i \in DOMAIN pe : pe[i].cwd = n}) = 1

C6_Witness ==
    /\ pc = "done"
    /\ Len(AnalyzeExits) = 3
    /\ AnalyzeExits[1].status # 0
    /\ AnalyzeExits[2].status = 0
    /\ AnalyzeExits[3].status # 0
    /\ failed = <<AnalyzeExits[1].cwd, AnalyzeExits[3].cwd>>

(* C7: execution is strictly sequential: at most one child process runs at *)
(* any time; every spawned command exits before the next one is spawned;   *)
(* the commands of a package are its fetch and then its analysis, in the   *)
(* same directory; the fetch of the next package is spawned only after the *)
(* analysis of the previous one has exited and its status is in `failed`.  *)
C7_StrictlySequential ==
    LET ce == CmdEvents
        done_pkgs == Analyzed
    IN  /\ Cardinality(running) <= 1
        /\ \A i \in DOMAIN ce :
             LET e == ce[i]
             IN  /\ i % 4 = 1 => e.kind = "spawn" /\ IsPubGet(e.cmd)
                 /\ i % 4 = 2 => e = [ce[i - 1] EXCEPT !.kind = "exit"] @@ [status |-> e.status]
                 /\ i % 4 = 3 => /\ e.kind = "spawn"
                                 /\ e.cmd = <<"dart", "analyze", "--fatal-infos">>
                                 /\ e.cwd = ce[i - 1].cwd
                 /\ i % 4 = 0 => e = [ce[i - 1] EXCEPT !.kind = "exit"] @@ [status |-> e.status]
                 /\ (i % 4 = 1 /\ i > 1) =>
                       /\ ce[i - 1].cwd # e.cwd
                       /\ ce[i - 1].status # 0 => ce[i - 1].cwd \in Range(failed)
        /\ running = IF Len(ce) % 2 = 1
                     THEN {p \in running : /\ p.cmd = ce[Len(ce)].cmd
                                           /\ p.cwd = ce[Len(ce)].cwd}
                     ELSE {}
        /\ Len(ce) % 2 = 1 <=> running # {}
        /\ pc = "done" => Len(ce) % 4 = 0 /\ Len(ce) = 4 * Cardinality(done_pkgs)

C7_Witness ==
    /\ pc = "analyze_wait"
    /\ Cardinality(running) = 1
    /\ Len(CmdEvents) = 7

IsSummary(t) ==
    \/ t = PassedLine
    \/ Len(t) >= Len(FailedPrefix) /\ SubSeq(t, 1, Len(FailedPrefix)) = FailedPrefix

\* position in a comma-separated list text where item k starts
RECURSIVE ItemStart(_, _)
ItemStart(items, k) ==
    IF k = 1 THEN 1 ELSE ItemStart(items, k - 1) + Len(items[k - 1]) + 2

\* body lists the items in order, separated by a comma and a space
ListsItems(body, items) ==
    LET n == Len(items)
    IN  /\ n >= 1
        /\ Len(body) = ItemStart(items, n) + Len(items[n]) - 1
        /\ \A k \in 1..n :
             LET a == ItemStart(items, k)
                 z == a + Len(items[k]) - 1
             IN  /\ SubSeq(body, a, z) = items[k]
                 /\ k < n => body[z + 1] = "," /\ body[z + 2] = " "

(* C8 as stated: once the loop over the entries has started, main ends     *)
(* abnormally only when spawning a command raises; classifying an entry    *)
(* and reading its manifest never end the run.                             *)
C8_OnlySpawnAborts ==
    (pc = "raised" /\ listable) => fault = "spawn"

(* C8 amended: main ends abnormally, with no summary line and no return    *)
(* value, only when listing the packages directory raises, when opening or *)
(* reading the manifest of an entry that has one raises, or when spawning  *)
(* a command raises; classifying an entry never ends the run.              *)
C8_AbortCauses ==
    LET ce == CmdEvents
    IN  /\ pc = "raised" <=> fault # "none"
        /\ pc = "raised" =>
             /\ returned = <<>>
             /\ \A i \in DOMAIN events : IsPrint(i) => ~IsSummary(events[i].text)
             /\ fault \in {"listdir", "open", "spawn"}
             /\ fault = "listdir" => ~listable /\ events = <<>>
             /\ fault = "open" => HasManifest(name) /\ ~fs[name].readable
             /\ fault = "spawn" =>
                  /\ HasManifest(name) /\ fs[name].readable
                  /\ Len(ce) % 2 = 0
                  /\ running = {}

C8_Witness ==
    /\ pc = "raised"
    /\ fault = "open"
    /\ Len(AnalyzeExits) = 1
    /\ \E n \in DOMAIN fs : ~HasManifest(n) /\ LexLess(n, name)

\* the indices of the progress lines that name n
ProgressLinesOf(n) ==
    {i \in DOMAIN events : IsPrint(i) /\ IsProgressLineOf(events[i].text, n)}

(* C9 as stated: every package has a progress line before its commands and *)
(* a progress line after them, and one summary line ends the output.       *)
C9_ProgressBeforeAndAfter ==
    pc = "done" =>
       /\ IsPrint(Len(events)) /\ IsSummary(events[Len(events)].text)
       /\ \A n \in Analyzed :
            \E i, j \in ProgressLinesOf(n) :
               /\ \A k \in DOMAIN events : (IsCmd(k) /\ events[k].cwd = n) => i < k
               /\ \A k \in DOMAIN events : (IsCmd(k) /\ events[k].cwd = n) => k < j

(* C9 amended: every package has exactly one progress line, written right  *)
(* before its fetch command is spawned, and none after its commands; the   *)
(* summary line is written exactly once, as the last output event, when    *)
(* main returns; it is the success message when `failed` is empty and      *)
(* otherwise lists the failed names in `failed` order, comma-separated.    *)
C9_OutputOrder ==
    /\ \A i \in DOMAIN events :
         /\ (IsPrint(i) /\ ~IsSummary(events[i].text)) =>
               /\ \E n \in DOMAIN fs : HasManifest(n) /\ ProgressLinesOf(n) = {i}
               /\ IF i < Len(events)
                  THEN /\ IsSpawn(i + 1)
                       /\ IsPubGet(events[i + 1].cmd)
                       /\ ProgressLinesOf(events[i + 1].cwd) = {i}
                  ELSE pc = "pub_get" \/ (pc = "raised" /\ fault = "spawn")
         /\ (IsSpawn(i) /\ IsPubGet(events[i].cmd)) =>
               i > 1 /\ ProgressLinesOf(events[i].cwd) = {i - 1}
         /\ (IsCmd(i) /\ ~(IsSpawn(i) /\ IsPubGet(events[i].cmd))) => IsCmd(i - 1)
         /\ (IsPrint(i) /\ IsSummary(events[i].text)) => i = Len(events) /\ pc = "done"
    /\ pc = "done" =>
         /\ events # <<>>
         /\ IsPrint(Len(events))
         /\ LET t == events[Len(events)].text
            IN  IF failed = <<>> THEN t = PassedLine
                ELSE /\ Len(t) > Len(FailedPrefix)
                     /\ SubSeq(t, 1, Len(FailedPrefix)) = FailedPrefix
                     /\ ListsItems(SubSeq(t, Len(FailedPrefix) + 1, Len(t)), failed)

C9_Witness ==
    /\ pc = "done"
    /\ Len(failed) = 3
    /\ Cardinality({i \in DOMAIN events : IsPrint(i)}) = 4

HungChild == \E p \in running : p.hangs

Finished ==
    /\ pc = "done"
    /\ returned \in {<<0>>, <<1>>}
    /\ IsPrint(Len(events)) /\ IsSummary(events[Len(events)].text)
    /\ \A n \in DOMAIN fs :
         HasManifest(n) => Cardinality({i \in DOMAIN events : IsSpawn(i) /\ events[i].cwd = n}) = 2

C10_WitnessHung ==
    /\ HungChild
    /\ pc = "pub_wait"
    /\ Len(CmdEvents) = 5

====
